---- MODULE Spec2Model ----
(***************************************************************************)
(* PolyTree (src/equadratures/polytree.py): recursive construction of a    *)
(* polynomial regression tree by fit(X, y) and routing of query points by  *)
(* predict(X).                                                             *)
(*                                                                         *)
(* Rows of the training set are identified by their position 1..NRows in   *)
(* X; a node's data is the sequence of the row positions it holds.  Reals  *)
(* are kept exact: a threshold is a fraction <<numerator, denominator>>    *)
(* and a loss is an integer number of 1/Unit^2.                            *)
(*                                                                         *)
(* A behaviour is one PolyTree: its construction, one call of fit, which   *)
(* is followed step by step through the recursion of _split_traverse_node, *)
(* and any number of calls of predict.  The fitter Poly is outside the     *)
(* file: it is taken to be the least-squares fit of a constant, which may  *)
(* raise on some data.                                                     *)
(***************************************************************************)
EXTENDS Integers, Sequences, FiniteSets, TLC

VARIABLES
    cfg,        \* self.max_depth, self.min_samples_leaf, self.search, self.samples
    X,          \* training inputs, X[r][j+1] is feature j of row r
    y,          \* training outputs
    tree,       \* self.tree: NoNode (None) or the root node
    nodes,      \* the node dictionaries, in creation order
    stack,      \* the active calls of _split_traverse_node, innermost last
    container,  \* container["index_node_global"]
    fitlog,     \* every invocation of _fit_poly so far, in order
    log,        \* self.log, with logging = False: the UP and DOWN events
    phase,      \* "new", "fit", "done" or "raised"
    err,        \* what fit raised: "none", "search", "fit_node", "fit_candidate"
    Xq,         \* the argument of the last predict
    y_pred,     \* the result of the last predict, in units of 1/Unit
    route       \* the leaf the last predict stopped at, per query row

vars == <<cfg, X, y, tree, nodes, stack, container, fitlog, log, phase, err, Xq, y_pred, route>>

----------------------------------------------------------------------------
(* Bounds of the model *)

NRows == 4
MaxDepth == 2
MaxLeaf == 2
MaxSamples == 3
FeatureValues == {0, 1}
OutputValues == {0, 1}

(* None for a child reference, a feature index and a threshold *)
NoNode == 0
NoFeature == -1
NoThreshold == <<0, 0>>

Points == FeatureValues \X FeatureValues

Searches == {"exhaustive", "uniform", "random"}

Configs ==
    { c \in [max_depth : 0..MaxDepth, min_samples_leaf : 1..MaxLeaf,
             search : Searches, samples : (1..MaxSamples) \cup {10}] :
        (c.search = "uniform") <=> (c.samples # 10) }

----------------------------------------------------------------------------
(* Arithmetic helpers *)

RECURSIVE Factorial(_)
Factorial(n) == IF n <= 1 THEN 1 ELSE n * Factorial(n - 1)

\* every row count 1..NRows divides Unit, so the divisions below are exact
Unit == Factorial(NRows)

RECURSIVE SumSeq(_)
SumSeq(s) == IF s = <<>> THEN 0 ELSE Head(s) + SumSeq(Tail(s))

Range(s) == { s[i] : i \in 1..Len(s) }

MinOf(S) == CHOOSE m \in S : \A v \in S : m <= v
MaxOf(S) == CHOOSE m \in S : \A v \in S : m >= v

\* x <= t and a <= b for fractions with positive denominators
Le(x, t) == x * t[2] <= t[1]
Lt(x, t) == x * t[2] < t[1]
FracLe(a, b) == a[1] * b[2] <= b[1] * a[2]
FracEq(a, b) == a[1] * b[2] = b[1] * a[2]

RECURSIVE Insert(_, _)
Insert(t, s) ==
    IF s = <<>> THEN <<t>>
    ELSE IF FracLe(t, Head(s)) THEN <<t>> \o s
    ELSE <<Head(s)>> \o Insert(t, Tail(s))

\* np.sort
RECURSIVE Sort(_)
Sort(s) == IF s = <<>> THEN <<>> ELSE Insert(Head(s), Sort(Tail(s)))

\* np.linspace(lo, hi, num)
linspace(lo, hi, num) ==
    IF num = 1 THEN << <<lo, 1>> >>
    ELSE [i \in 1..num |-> <<lo * (num - 1) + (i - 1) * (hi - lo), num - 1>>]

----------------------------------------------------------------------------
(* The polynomial fitter (equadratures.poly.Poly, least squares) *)

\* Unit * poly.get_polyfit(x) for the polynomial fitted on the rows `on`:
\* the least-squares constant, the mean of the outputs it was fitted on
get_polyfit(on) == (Unit * SumSeq([i \in 1..Len(on) |-> y[on[i]]])) \div Len(on)

\* Unit^2 * np.linalg.norm(y - poly.get_polyfit(X)) ** 2 / N
Mse(rows) ==
    LET residual == [i \in 1..Len(rows) |-> Unit * y[rows[i]] - get_polyfit(rows)]
    IN  SumSeq([i \in 1..Len(rows) |-> residual[i] * residual[i]]) \div Len(rows)

\* _fit_poly, when Poly fits: the loss, the polynomial (which invocation
\* fitted it, on which rows), the counter and the record of the invocation
fit_poly(rows, env, site) ==
    [mse  |-> Mse(rows),
     poly |-> [fit |-> Len(env.fitlog) + 1, on |-> rows],
     env  |-> [container |-> env.container + 1,
               fitlog    |-> Append(env.fitlog, [rows |-> rows, site |-> site, ok |-> TRUE]),
               raised    |-> env.raised]]

\* Poly may fail to fit (an ill-conditioned basis).  The fit is a function of
\* its data, so an invocation can raise only on rows no invocation fitted
\* before it.  MayRaise(before, after) are the invocations, among those a
\* step makes when every fit succeeds, at which Poly can raise instead.
MayRaise(before, after) ==
    { k \in (Len(before) + 1)..Len(after) :
        \A i \in 1..(k - 1) : after[i].rows # after[k].rows }

\* the record of the invocations when the k-th raises: the exception leaves
\* _fit_poly after the counter is incremented and ends the call of fit
RaisedAt(after, k) == [i \in 1..k |-> IF i = k THEN [after[i] EXCEPT !.ok = FALSE] ELSE after[i]]

RaiseKind(after, k) == IF after[k].site = "node" THEN "fit_node" ELSE "fit_candidate"

----------------------------------------------------------------------------
(* _splitter and its helpers *)

GoesLeft_strict(x, threshold) == Lt(x, threshold)

\* X[:, j_feature] <= threshold
GoesLeft(x, threshold) == Le(x, threshold)

split_data(j_feature, threshold, data) ==
    LET idx_left  == { i \in 1..Len(data) : GoesLeft(X[data[i]][j_feature + 1], threshold) }
        idx_right == (1..Len(data)) \ idx_left
        Take(idx) == LET F[i \in 0..Len(data)] ==
                             IF i = 0 THEN <<>>
                             ELSE IF i \in idx THEN Append(F[i - 1], data[i]) ELSE F[i - 1]
                     IN  F[Len(data)]
    IN  <<Take(idx_left), Take(idx_right)>>

DepthGate_inclusive(depth) == (depth >= 0) /\ (depth <= cfg.max_depth)

DepthGate(depth) == (depth >= 0) /\ (depth < cfg.max_depth)

Feasible_right_nonempty(N_left, N_right) ==
    N_left >= cfg.min_samples_leaf /\ N_right >= 1

Feasible(N_left, N_right) ==
    N_left >= cfg.min_samples_leaf /\ N_right >= cfg.min_samples_leaf

Improves_or_ties(loss_split, loss_best) == loss_split <= loss_best

Improves(loss_split, loss_best) == loss_split < loss_best

KnownSearch == cfg.search \in {"exhaustive", "uniform"}

\* the unsorted thresholds of one feature
threshold_search(j_feature, data) ==
    LET col == [i \in 1..Len(data) |-> X[data[i]][j_feature + 1]]
    IN  IF cfg.search = "exhaustive" THEN [i \in 1..Len(col) |-> <<col[i], 1>>]
        ELSE IF cfg.search = "uniform"
             THEN LET samples == IF cfg.samples > Len(col) THEN Len(col) ELSE cfg.samples
                  IN  linspace(MinOf(Range(col)), MaxOf(Range(col)), samples)
        ELSE <<>>

RECURSIVE threshold_loop(_, _, _, _, _)
threshold_loop(ts, i, j_feature, data, best) ==
    IF i > Len(ts) THEN best
    ELSE
      LET threshold == ts[i]
          parts     == split_data(j_feature, threshold, data)
          N_left    == Len(parts[1])
          N_right   == Len(parts[2])
      IN  IF ~Feasible(N_left, N_right)
          THEN threshold_loop(ts, i + 1, j_feature, data, best)
          ELSE
            LET fl == fit_poly(parts[1], best.env, "candidate")
                fr == fit_poly(parts[2], fl.env, "candidate")
                loss_split == (N_left * fl.mse + N_right * fr.mse) \div Len(data)
            IN  IF Improves(loss_split, best.loss)
                THEN threshold_loop(ts, i + 1, j_feature, data,
                         [did_split |-> TRUE, loss |-> loss_split,
                          polys |-> <<fl.poly, fr.poly>>, data |-> parts,
                          j_feature |-> j_feature, threshold |-> threshold,
                          N |-> best.N, env |-> fr.env])
                ELSE threshold_loop(ts, i + 1, j_feature, data, [best EXCEPT !.env = fr.env])

RECURSIVE feature_loop(_, _, _, _)
feature_loop(j_feature, d, data, best) ==
    IF j_feature >= d \/ best.env.raised # "none" THEN best
    ELSE
      LET ts == threshold_search(j_feature, data)
      IN  IF ~KnownSearch THEN [best EXCEPT !.env.raised = "search"]
          ELSE feature_loop(j_feature + 1, d, data,
                            threshold_loop(Sort(ts), 1, j_feature, data, best))

NoEnv == [container |-> 0, fitlog |-> <<>>, raised |-> "none"]

NoResult ==
    [did_split |-> FALSE, loss |-> 0, polys |-> <<>>, data |-> <<>>,
     j_feature |-> NoFeature, threshold |-> NoThreshold, N |-> 0, env |-> NoEnv]

loss_to_beat_unbounded(node) == Unit * Unit * (1 + MaxOf(OutputValues)) * (1 + MaxOf(OutputValues))

\* loss_best = node["loss"]
loss_to_beat(node) == node.loss

splitter(node, env) ==
    LET d    == Len(X[1])
        best == [NoResult EXCEPT !.loss = loss_to_beat(node), !.N = Len(node.data), !.env = env]
    IN  IF DepthGate(node.depth) THEN feature_loop(0, d, node.data, best) ELSE best

----------------------------------------------------------------------------
(* _create_node *)

\* rows, evaluated and returned are history fields: the rows the node was
\* created on (kept after "del node['data']"), whether _splitter has run on
\* it, and whether its call of _split_traverse_node has returned
create_node(rows, depth, env) ==
    LET f == fit_poly(rows, env, "node")
    IN  [node |-> [index |-> f.env.container, loss |-> f.mse, poly |-> f.poly,
                   data |-> rows, n_samples |-> Len(rows),
                   j_feature |-> NoFeature, threshold |-> NoThreshold,
                   left |-> NoNode, right |-> NoNode, depth |-> depth,
                   rows |-> rows, evaluated |-> FALSE, returned |-> FALSE],
         env  |-> [f.env EXCEPT !.container = @ + 1]]

----------------------------------------------------------------------------
(* State *)

AllRows == [r \in 1..NRows |-> r]

\* rows are listed in nondecreasing order of (features, output): the tree
\* built does not depend on the order of the rows (thresholds are sorted,
\* partitions keep the relative order, the loss is a sum over rows)
Key(x, v) ==
    LET K == 1 + MaxOf(FeatureValues \cup OutputValues)
    IN  (x[1] * K + x[2]) * K + v

Init ==
    /\ X \in [1..NRows -> Points]
    /\ y \in [1..NRows -> OutputValues]
    /\ \A r \in 1..(NRows - 1) : Key(X[r], y[r]) <= Key(X[r + 1], y[r + 1])
    /\ cfg \in Configs
    /\ tree = NoNode
    /\ nodes = <<>>
    /\ stack = <<>>
    /\ container = 0
    /\ fitlog = <<>>
    /\ log = <<>>
    /\ phase = "new"
    /\ err = "none"
    /\ Xq = <<>>
    /\ y_pred = <<>>
    /\ route = <<>>

Env == [container |-> container, fitlog |-> fitlog, raised |-> "none"]

Top == stack[Len(stack)]
Pop == SubSeq(stack, 1, Len(stack) - 1)
Frame(n) == [node |-> n, pc |-> "splitter", result |-> NoResult]
SetTop(pc, result) == [stack EXCEPT ![Len(stack)] = [@ EXCEPT !.pc = pc, !.result = result]]

\* an exception leaves fit: the tree under construction is dropped
Raise(e) ==
    /\ phase' = "raised"
    /\ err' = e
    /\ stack' = <<>>

\* the outcomes of a step that calls _fit_poly: k = 0, every fit succeeds and
\* the step ends in `env`; or its k-th invocation raises
FitOutcome(env, k) ==
    IF k = 0
    THEN /\ container' = env.container
         /\ fitlog' = env.fitlog
    ELSE /\ container' = container + (k - Len(fitlog))
         /\ fitlog' = RaisedAt(env.fitlog, k)
         /\ Raise(RaiseKind(env.fitlog, k))

FitChoices(env) == {0} \cup MayRaise(fitlog, env.fitlog)

----------------------------------------------------------------------------
(* fit *)

\* fit, _build_tree up to the creation of the root
Fit ==
    /\ phase = "new"
    /\ \E c \in {create_node(AllRows, 0, NoEnv)} :
           \E k \in FitChoices(c.env) :
             /\ FitOutcome(c.env, k)
             /\ IF k # 0 THEN UNCHANGED nodes
                ELSE /\ nodes' = <<c.node>>
                     /\ stack' = <<Frame(1)>>
                     /\ phase' = "fit"
                     /\ UNCHANGED err
    /\ UNCHANGED <<cfg, X, y, tree, log, Xq, y_pred, route>>

\* _split_traverse_node, from its call of _splitter to "del node['data']"
Splitter ==
    /\ phase = "fit" /\ stack # <<>> /\ Top.pc = "splitter"
    /\ LET n == Top.node
       IN  \E result \in {splitter(nodes[n], Env)} :
           \E k \in FitChoices(result.env) :
             /\ FitOutcome(result.env, k)
             /\ IF k # 0 THEN UNCHANGED <<nodes, log>>
                ELSE IF result.env.raised # "none"
                THEN Raise(result.env.raised) /\ UNCHANGED <<nodes, log>>
                ELSE IF ~result.did_split
                THEN /\ log' = Append(log, <<"UP">>)
                     /\ stack' = Pop
                     /\ nodes' = [nodes EXCEPT ![n].evaluated = TRUE, ![n].returned = TRUE]
                     /\ UNCHANGED <<phase, err>>
                ELSE /\ nodes' = [nodes EXCEPT ![n].evaluated = TRUE,
                                               ![n].j_feature = result.j_feature,
                                               ![n].threshold = result.threshold,
                                               ![n].data = <<>>]
                     /\ stack' = SetTop("create_left", [result EXCEPT !.env = NoEnv])
                     /\ UNCHANGED <<phase, err, log>>
    /\ UNCHANGED <<cfg, X, y, tree, Xq, y_pred, route>>

\* node["children"][side] = _create_node(...)
CreateChild(pc, side, next) ==
    /\ phase = "fit" /\ stack # <<>> /\ Top.pc = pc
    /\ LET n == Top.node
           child == Len(nodes) + 1
       IN  \E c \in {create_node(Top.result.data[side], nodes[n].depth + 1, Env)} :
           \E k \in FitChoices(c.env) :
             /\ FitOutcome(c.env, k)
             /\ IF k # 0 THEN UNCHANGED nodes
                ELSE /\ nodes' = Append(IF side = 1 THEN [nodes EXCEPT ![n].left = child]
                                        ELSE [nodes EXCEPT ![n].right = child], c.node)
                     /\ stack' = SetTop(next, Top.result)
                     /\ UNCHANGED <<phase, err>>
    /\ UNCHANGED <<cfg, X, y, tree, log, Xq, y_pred, route>>

CreateLeft == CreateChild("create_left", 1, "create_right")

CreateRight == CreateChild("create_right", 2, "set_polys")

\* node["children"]["left"]["poly"] = poly_left, and the same on the right
SetPolys ==
    /\ phase = "fit" /\ stack # <<>> /\ Top.pc = "set_polys"
    /\ LET n == Top.node
       IN  nodes' = [nodes EXCEPT ![nodes[n].left].poly = Top.result.polys[1],
                                  ![nodes[n].right].poly = Top.result.polys[2]]
    /\ stack' = SetTop("down_left", Top.result)
    /\ UNCHANGED <<cfg, X, y, tree, container, fitlog, log, phase, err, Xq, y_pred, route>>

\* log DOWN and call _split_traverse_node on a child
Down(pc, direction, child, next) ==
    /\ phase = "fit" /\ stack # <<>> /\ Top.pc = pc
    /\ log' = Append(log, <<"DOWN", direction, Top.result.j_feature, Top.result.threshold>>)
    /\ stack' = Append(SetTop(next, Top.result), Frame(child))
    /\ UNCHANGED <<cfg, X, y, tree, nodes, container, fitlog, phase, err, Xq, y_pred, route>>

DownLeft_right_first == Down("down_left", "LEFT", nodes[Top.node].right, "down_right")

DownLeft == Down("down_left", "LEFT", nodes[Top.node].left, "down_right")

DownRight == Down("down_right", "RIGHT", nodes[Top.node].right, "up")

\* the last line of _split_traverse_node and its return
Up ==
    /\ phase = "fit" /\ stack # <<>> /\ Top.pc = "up"
    /\ log' = Append(log, <<"UP">>)
    /\ nodes' = [nodes EXCEPT ![Top.node].returned = TRUE]
    /\ stack' = Pop
    /\ UNCHANGED <<cfg, X, y, tree, container, fitlog, phase, err, Xq, y_pred, route>>

\* return root; self.tree = _build_tree()
FitReturn ==
    /\ phase = "fit" /\ stack = <<>>
    /\ tree' = 1
    /\ phase' = "done"
    /\ UNCHANGED <<cfg, X, y, nodes, stack, container, fitlog, log, err, Xq, y_pred, route>>

----------------------------------------------------------------------------
(* predict *)

PredictLeft_strict(x, threshold) == Lt(x, threshold)

\* x[node["j_feature"]] <= node["threshold"]
PredictLeft(x, threshold) == Le(x, threshold)

\* the leaf _predict stops at
RECURSIVE leaf_of(_, _)
leaf_of(n, x) ==
    IF nodes[n].left = NoNode /\ nodes[n].right = NoNode THEN n
    ELSE IF PredictLeft(x[nodes[n].j_feature + 1], nodes[n].threshold)
         THEN leaf_of(nodes[n].left, x)
         ELSE leaf_of(nodes[n].right, x)

\* _predict
predict_one(n, x) == get_polyfit(nodes[leaf_of(n, x)].poly.on)

\* the training inputs, in their order and reversed
Batches == {[i \in 1..NRows |-> X[i]], [i \in 1..NRows |-> X[NRows + 1 - i]]}

Predict ==
    /\ phase = "done" /\ tree # NoNode
    /\ \E batch \in Batches :
         /\ Xq' = batch
         /\ y_pred' = [i \in 1..Len(batch) |-> predict_one(tree, batch[i])]
         /\ route' = [i \in 1..Len(batch) |-> leaf_of(tree, batch[i])]
    /\ UNCHANGED <<cfg, X, y, tree, nodes, stack, container, fitlog, log, phase, err>>

----------------------------------------------------------------------------

Next ==
    \/ Fit
    \/ Splitter
    \/ CreateLeft
    \/ CreateRight
    \/ SetPolys
    \/ DownLeft
    \/ DownRight
    \/ Up
    \/ FitReturn
    \/ Predict

Spec == Init /\ [][Next]_vars

----------------------------------------------------------------------------
(* Vocabulary of the properties, stated on the tree and the training set  *)
(* without the operators of _splitter                                     *)

NodeIds == 1..Len(nodes)
IsLeaf(n) == nodes[n].left = NoNode /\ nodes[n].right = NoNode
IsInternal(n) == nodes[n].left # NoNode /\ nodes[n].right # NoNode
IsRoot(n) == n = 1
RowSet(n) == Range(nodes[n].rows)

\* the rows of `rows` on each side of (j, t)
Part(rows, j, t) ==
    <<SelectSeq(rows, LAMBDA r : X[r][j + 1] * t[2] <= t[1]),
      SelectSeq(rows, LAMBDA r : X[r][j + 1] * t[2] > t[1])>>

BothSidesBigEnough(rows, c) ==
    /\ Len(Part(rows, c[1], c[2])[1]) >= cfg.min_samples_leaf
    /\ Len(Part(rows, c[1], c[2])[2]) >= cfg.min_samples_leaf

\* (n_left * loss_left + n_right * loss_right) / n_parent
WeightedLoss(rows, c) ==
    LET p == Part(rows, c[1], c[2])
    IN  (Len(p[1]) * Mse(p[1]) + Len(p[2]) * Mse(p[2])) \div Len(rows)

\* the (feature, threshold) pairs the configured search enumerates on `rows`
Candidates(rows) ==
    UNION { { <<j, t>> : t \in Range(threshold_search(j, rows)) } : j \in 0..(Len(X[1]) - 1) }

FeasibleCandidates(rows) == { c \in Candidates(rows) : BothSidesBigEnough(rows, c) }

\* candidate a is found before candidate b, or is the same split
FoundFirst(a, b) == a[1] < b[1] \/ (a[1] = b[1] /\ FracLe(a[2], b[2]))

Chosen(n) == <<nodes[n].j_feature, nodes[n].threshold>>

TypeOK ==
    /\ phase \in {"new", "fit", "done", "raised"}
    /\ err \in {"none", "search", "fit_node", "fit_candidate"}

----------------------------------------------------------------------------
(* Properties *)

\* C1: after fit, the children of every internal node with split (j, t) hold
\* exactly the parent's rows with X[row, j] <= t (left) and X[row, j] > t
\* (right); the two are disjoint and their sample counts add up to the parent's
C1_PartitionComplete ==
    phase = "done" =>
      \A n \in NodeIds : IsInternal(n) =>
        LET j == nodes[n].j_feature
            t == nodes[n].threshold
            l == nodes[n].left
            r == nodes[n].right
        IN  /\ RowSet(l) = { row \in RowSet(n) : X[row][j + 1] * t[2] <= t[1] }
            /\ RowSet(r) = { row \in RowSet(n) : X[row][j + 1] * t[2] > t[1] }
            /\ RowSet(l) \cap RowSet(r) = {}
            /\ nodes[l].n_samples = Cardinality(RowSet(l))
            /\ nodes[r].n_samples = Cardinality(RowSet(r))
            /\ nodes[l].n_samples + nodes[r].n_samples = nodes[n].n_samples

\* a finished tree with a split below a split
C1_Witness ==
    /\ phase = "done"
    /\ \E n \in NodeIds : IsInternal(n) /\ ~IsRoot(n)

\* C2: both children of every accepted split have at least min_samples_leaf
\* rows (every non-root node has), and split search fits no polynomial on a
\* side smaller than that
C2_LeafSizeFeasible ==
    /\ \A n \in NodeIds : ~IsRoot(n) => nodes[n].n_samples >= cfg.min_samples_leaf
    /\ \A k \in 1..Len(stack) :
         stack[k].pc # "splitter" =>
           \A side \in 1..2 : Len(stack[k].result.data[side]) >= cfg.min_samples_leaf
    /\ \A i \in 1..Len(fitlog) :
         fitlog[i].site = "candidate" => Len(fitlog[i].rows) >= cfg.min_samples_leaf

\* a finished tree with a split, built where a candidate had too small a side
C2_Witness ==
    /\ phase = "done"
    /\ cfg.min_samples_leaf > 1
    /\ IsInternal(1)
    /\ \E c \in Candidates(nodes[1].rows) : ~BothSidesBigEnough(nodes[1].rows, c)

\* C3: after fit no node is deeper than max_depth, the root has depth 0 and a
\* child its parent's depth plus one, and every leaf is at max_depth or has no
\* feasible candidate split whose weighted loss is below the leaf's own loss
C3_DepthBound ==
    phase = "done" =>
      /\ nodes[1].depth = 0
      /\ \A n \in NodeIds :
           /\ nodes[n].depth <= cfg.max_depth
           /\ IsInternal(n) =>
                /\ nodes[nodes[n].left].depth = nodes[n].depth + 1
                /\ nodes[nodes[n].right].depth = nodes[n].depth + 1
           /\ IsLeaf(n) =>
                \/ nodes[n].depth = cfg.max_depth
                \/ \A c \in FeasibleCandidates(nodes[n].data) :
                     WeightedLoss(nodes[n].data, c) >= nodes[n].loss

\* a finished tree with a leaf at max_depth below the root and a leaf above
\* max_depth that has feasible candidates, none of them improving
C3_Witness ==
    /\ phase = "done"
    /\ \E n \in NodeIds : IsLeaf(n) /\ nodes[n].depth = cfg.max_depth /\ ~IsRoot(n)
    /\ \E n \in NodeIds :
         /\ IsLeaf(n)
         /\ nodes[n].depth < cfg.max_depth
         /\ FeasibleCandidates(nodes[n].data) # {}

\* C4: the weighted loss of every accepted split is strictly below the loss
\* its parent recorded at creation, so a candidate that only equals it is not
\* accepted
C4_StrictImprovement ==
    /\ \A k \in 1..Len(stack) :
         stack[k].pc # "splitter" =>
           /\ stack[k].result.did_split
           /\ stack[k].result.loss < nodes[stack[k].node].loss
    /\ \A n \in NodeIds : IsInternal(n) =>
         /\ WeightedLoss(nodes[n].rows, Chosen(n)) < nodes[n].loss
         /\ (nodes[nodes[n].left].n_samples * nodes[nodes[n].left].loss
               + nodes[nodes[n].right].n_samples * nodes[nodes[n].right].loss)
              \div nodes[n].n_samples < nodes[n].loss

\* a finished tree with an accepted split and a leaf above max_depth left
\* unsplit although a feasible candidate equals its loss
C4_Witness ==
    /\ phase = "done"
    /\ IsInternal(1)
    /\ \E n \in NodeIds :
         /\ IsLeaf(n)
         /\ nodes[n].depth < cfg.max_depth
         /\ \E c \in FeasibleCandidates(nodes[n].data) :
              WeightedLoss(nodes[n].data, c) = nodes[n].loss

\* C5: the split of every split node is a feasible enumerated candidate of
\* minimum weighted loss, and among the candidates of that same loss it is the
\* first found: lowest feature index, then lowest threshold
C5_BestFirstFound ==
    \A n \in NodeIds : nodes[n].j_feature # NoFeature =>
      /\ \E c \in FeasibleCandidates(nodes[n].rows) :
           c[1] = Chosen(n)[1] /\ FracEq(c[2], Chosen(n)[2])
      /\ \A c \in FeasibleCandidates(nodes[n].rows) :
           /\ WeightedLoss(nodes[n].rows, Chosen(n)) <= WeightedLoss(nodes[n].rows, c)
           /\ WeightedLoss(nodes[n].rows, Chosen(n)) = WeightedLoss(nodes[n].rows, c)
                => FoundFirst(Chosen(n), c)

\* a split node with a later candidate of equal weighted loss in another
\* feature and one at a higher threshold of the same feature
C5_Witness ==
    \E n \in NodeIds :
      /\ nodes[n].j_feature # NoFeature
      /\ \E a, b \in FeasibleCandidates(nodes[n].rows) :
           /\ WeightedLoss(nodes[n].rows, a) = WeightedLoss(nodes[n].rows, Chosen(n))
           /\ WeightedLoss(nodes[n].rows, b) = WeightedLoss(nodes[n].rows, Chosen(n))
           /\ a[1] > Chosen(n)[1]
           /\ b[1] = Chosen(n)[1] /\ ~FracLe(b[2], Chosen(n)[2])

\* C6: a polynomial fit that fails on a side of a candidate split makes split
\* search skip the candidate, so no such failure ends fit; only a failure on
\* a node's own polynomial does
C6_CandidateFailureSkipped ==
    /\ err # "fit_candidate"
    /\ \A i \in 1..Len(fitlog) :
         (fitlog[i].site = "candidate" /\ ~fitlog[i].ok) => phase # "raised"

\* C7: under a search strategy other than 'exhaustive' and 'uniform', fit
\* raises at its first use, whatever max_depth and the data: no tree is built
\* and stored
C7_UnknownSearchRejected ==
    ~KnownSearch => (phase # "done" /\ tree = NoNode)

\* C8 as claimed: the left child's call of _split_traverse_node has returned
\* before the right child is created
C8_LeftCompleteBeforeRightCreated ==
    \A n \in NodeIds : nodes[n].right # NoNode => nodes[nodes[n].left].returned

\* C8: both children of a split node are created, left then right, before
\* either is searched for a split; the left child's subtree is complete
\* before split search starts on the right child; and a parent has its index
\* before either child is created
C8_LeftSubtreeBeforeRightSubtree ==
    \A n \in NodeIds :
      /\ nodes[n].left # NoNode =>
           /\ nodes[n].index < nodes[nodes[n].left].index
           /\ nodes[n].left > n
           /\ nodes[n].evaluated
           /\ nodes[nodes[n].left].evaluated => nodes[n].right # NoNode
      /\ nodes[n].right # NoNode =>
           /\ nodes[n].left # NoNode
           /\ nodes[n].right = nodes[n].left + 1
           /\ nodes[nodes[n].left].index < nodes[nodes[n].right].index
           /\ nodes[nodes[n].right].evaluated => nodes[nodes[n].left].returned

\* split search has run on a right child whose left sibling was split itself
C8_Witness ==
    \E n \in NodeIds :
      /\ nodes[n].right # NoNode
      /\ nodes[nodes[n].right].evaluated
      /\ IsInternal(nodes[n].left)

\* C9: the children of an accepted split carry the polynomials fitted for the
\* winning candidate, and a call of fit invokes the fitter once for the root
\* and twice per feasible candidate, never again for a child's data
C9_ChildPolysNotRefit ==
    phase = "done" =>
      /\ \A n \in NodeIds : ~IsRoot(n) => fitlog[nodes[n].poly.fit].site = "candidate"
      /\ Len(fitlog) = 1 + Cardinality({ i \in 1..Len(fitlog) : fitlog[i].site = "candidate" })

\* the leaf reached by walking the stored thresholds by hand
RECURSIVE ManualWalk(_, _)
ManualWalk(n, x) ==
    IF IsLeaf(n) THEN n
    ELSE IF x[nodes[n].j_feature + 1] * nodes[n].threshold[2] <= nodes[n].threshold[1]
         THEN ManualWalk(nodes[n].left, x)
         ELSE ManualWalk(nodes[n].right, x)

====
